---- MODULE Spec2Model ----
(***************************************************************************)
(* Model of freeseer's RTMP streaming output plugin                        *)
(* (src/freeseer/plugins/output/rtmp_streaming/__init__.py):               *)
(*   - RTMPOutput.get_output_bin and the graph (gst.Bin) it returns,       *)
(*   - the settings-panel setters and the persisted configuration,         *)
(*   - the JustinApi client (OAuth token exchange, channel-status push).   *)
(*                                                                         *)
(* Python values are modelled as follows.  None/absent is the empty        *)
(* sequence << >> and a present value v is << v >>.  A dict is a function  *)
(* from its keys.  A call's outcome is a record whose field exc names the  *)
(* exception that escaped ("" when none did).                              *)
(***************************************************************************)
EXTENDS Integers, Sequences, FiniteSets, TLC

VARIABLES config, saved, tags, justin_api, justin_api_persistent,
          api_config, last, edits, calls, exchanges

vars == <<config, saved, tags, justin_api, justin_api_persistent,
          api_config, last, edits, calls, exchanges>>

----------------------------------------------------------------------------
(* Bounds of the model *)

\* number of settings-panel edits explored in one behaviour
MaxEdits == 2

\* number of set_channel_status calls explored in one behaviour
MaxCalls == 2

----------------------------------------------------------------------------
(* Module-level constants, lines 121-126 *)

TUNE_VALUES == <<"none", "film", "animation", "grain", "stillimage",
                 "psnr", "ssim", "fastdecode", "zerolatency">>

AUDIO_CODEC_VALUES == <<"lame", "faac">>

STREAMING_DESTINATION_VALUES == <<"custom", "justin.tv">>

JUSTIN_URL == "rtmp://live-3c.justin.tv/app/"

STATUS_KEYS == <<"artist", "title">>

DESCRIPTION_KEY == "comment"

\* Python list index i (0-based) of a module-level list
Idx(list, i) == list[i + 1]

Range(seq) == {seq[i] : i \in DOMAIN seq}

None == << >>

Some(v) == << v >>

IsNone(o) == Len(o) = 0

Val(o) == o[1]

EmptyMap == [k \in {} |-> ""]

----------------------------------------------------------------------------
(* Attribute lookup.  `self.X` on an instance resolves through the         *)
(* instance and its class; a module-level name is not an attribute.        *)

\* names bound in the body of class RTMPOutput (lines 145-154) or on the
\* instance by the framework (config, widget, gui)
RTMPOutputAttrs ==
    {"name", "os", "type", "recordto", "tags", "justin_api",
     "streaming_destination_widget", "load_config_delegate", "CONFIG_CLASS",
     "config", "widget", "gui"}

\* names bound in the body of class JustinApi (line 615); the instance
\* attributes are those its methods assign
JustinApiAttrs == {"addr"}

----------------------------------------------------------------------------
(* RTMPOutputConfig, lines 129-142 *)

DefaultConfig ==
    [url |-> "",
     audio_quality |-> 3,
     video_bitrate |-> 2400,
     video_tune |-> "none",
     audio_codec |-> "lame",
     streaming_destination |-> "custom",
     streaming_key |-> "",
     consumer_key |-> "",
     consumer_secret |-> "",
     authorization_url |-> "",
     use_justin_api |-> "no",
     justin_api_persistent |-> << >>]

----------------------------------------------------------------------------
(* The GStreamer side of get_output_bin *)

\* gst.TagMergeMode.__enum_values__, GstTagMergeMode in declaration order
TagMergeModeEnum ==
    <<"undefined", "replace-all", "replace", "append", "prepend",
      "keep", "keep-all">>

\* gst.tag_exists: the tags registered with GStreamer, among the metadata
\* keys the model draws
RegisteredTags == {"title", "artist", "comment"}

\* element.get_property_names(): lame has a quality property, faac has none
PropertyNames(factory) ==
    IF factory = "lame" THEN {"name", "bitrate", "quality"}
    ELSE IF factory = "faac" THEN {"name", "bitrate", "profile"}
    ELSE {"name"}

\* gst.Bin()
NewBin ==
    [elements |-> EmptyMap,
     pads |-> {},
     links |-> {},
     muxer_tags |-> None,
     muxer_merge_mode |-> "keep"]

\* gst.element_factory_make(factory, name) + set_property + bin.add
BinAdd(bin, name, factory, props) ==
    [bin EXCEPT !.elements =
        (name :> [factory |-> factory, props |-> props]) @@ @]

\* gst.GhostPad(padname, element.get_pad("sink")) + bin.add_pad
BinAddPad(bin, padname, element) ==
    [bin EXCEPT !.pads =
        @ \cup {[name |-> padname, element |-> element, pad |-> "sink"]}]

\* a.link(b)
BinLink(bin, a, b) == [bin EXCEPT !.links = @ \cup {<<a, b>>}]

\* set_metadata without the gst.tag_exists test of line 273
set_metadata_NoFilter(data) == data

\* set_metadata, lines 265-277: a fresh TagList holding the registered keys
set_metadata(data) ==
    [tag \in {k \in DOMAIN data : k \in RegisteredTags} |-> data[tag]]

\* MuxerAndSink without the metadata test of line 176: whatever self.tags
\* holds is merged, tags of an earlier call included
MuxerAndSink_MergeStale(bin, metadata, selftags, cfg) ==
    LET merge_mode == Idx(TagMergeModeEnum, 2)
        b1 == BinAdd([bin EXCEPT !.muxer_tags = selftags,
                                 !.muxer_merge_mode = merge_mode],
                     "muxer", "flvmux", EmptyMap)
    IN  BinAdd(b1, "rtmpsink", "rtmpsink", "location" :> cfg.url)

\* MuxerAndSink with set_tag_merge_mode moved under `if metadata is not None`
MuxerAndSink_ModeWithTagsOnly(bin, metadata, selftags, cfg) ==
    LET merge_mode == Idx(TagMergeModeEnum, 2)
        b0 == IF ~IsNone(metadata)
              THEN [bin EXCEPT !.muxer_tags = selftags, !.muxer_merge_mode = merge_mode]
              ELSE bin
        b1 == BinAdd(b0, "muxer", "flvmux", EmptyMap)
    IN  BinAdd(b1, "rtmpsink", "rtmpsink", "location" :> cfg.url)

\* lines 169-186: muxer (tags merged only when metadata is given, merge
\* mode always set), then rtmpsink
MuxerAndSink(bin, metadata, selftags, cfg) ==
    LET merge_mode == Idx(TagMergeModeEnum, 2)
        merged == IF ~IsNone(metadata) THEN selftags ELSE None
        b1 == BinAdd([bin EXCEPT !.muxer_tags = merged,
                                 !.muxer_merge_mode = merge_mode],
                     "muxer", "flvmux", EmptyMap)
    IN  BinAdd(b1, "rtmpsink", "rtmpsink", "location" :> cfg.url)

\* AudioChain without the get_property_names test of line 204: quality is
\* set on every codec
AudioChain_QualityAlways(bin, cfg) ==
    LET b1 == BinAdd(bin, "audioqueue", "queue", EmptyMap)
        b2 == BinAdd(b1, "audioconvert", "audioconvert", EmptyMap)
        b3 == BinAdd(b2, "audiolevel", "level", "interval" :> 20000000)
        b4 == BinAdd(b3, "audiocodec", cfg.audio_codec,
                     "quality" :> cfg.audio_quality)
        b5 == BinAddPad(b4, "audiosink", "audioqueue")
        b6 == BinLink(b5, "audioqueue", "audioconvert")
        b7 == BinLink(b6, "audioconvert", "audiolevel")
        b8 == BinLink(b7, "audiolevel", "audiocodec")
    IN  BinLink(b8, "audiocodec", "muxer")

\* lines 191-220
AudioChain(bin, cfg) ==
    LET b1 == BinAdd(bin, "audioqueue", "queue", EmptyMap)
        b2 == BinAdd(b1, "audioconvert", "audioconvert", EmptyMap)
        b3 == BinAdd(b2, "audiolevel", "level", "interval" :> 20000000)
        codecprops ==
            IF "quality" \in PropertyNames(cfg.audio_codec)
            THEN "quality" :> cfg.audio_quality
            ELSE EmptyMap
        b4 == BinAdd(b3, "audiocodec", cfg.audio_codec, codecprops)
        b5 == BinAddPad(b4, "audiosink", "audioqueue")
        b6 == BinLink(b5, "audioqueue", "audioconvert")
        b7 == BinLink(b6, "audioconvert", "audiolevel")
        b8 == BinLink(b7, "audiolevel", "audiocodec")
    IN  BinLink(b8, "audiocodec", "muxer")

\* VideoChain with the ghost pad bound to the encoder instead of the queue
VideoChain_PadOnCodec(bin, cfg) ==
    LET b1 == BinAdd(bin, "videoqueue", "queue", EmptyMap)
        tune == IF cfg.video_tune # "none"
                THEN "tune" :> cfg.video_tune
                ELSE EmptyMap
        b2 == BinAdd(b1, "videocodec", "x264enc",
                     ("bitrate" :> cfg.video_bitrate) @@ tune)
        b3 == BinAddPad(b2, "videosink", "videocodec")
        b4 == BinLink(b3, "videoqueue", "videocodec")
    IN  BinLink(b4, "videocodec", "muxer")

\* VideoChain without the test of line 231: tune is set whatever its value
VideoChain_AlwaysTune(bin, cfg) ==
    LET b1 == BinAdd(bin, "videoqueue", "queue", EmptyMap)
        b2 == BinAdd(b1, "videocodec", "x264enc",
                     ("bitrate" :> cfg.video_bitrate)
                        @@ ("tune" :> cfg.video_tune))
        b3 == BinAddPad(b2, "videosink", "videoqueue")
        b4 == BinLink(b3, "videoqueue", "videocodec")
    IN  BinLink(b4, "videocodec", "muxer")

\* lines 225-242
VideoChain(bin, cfg) ==
    LET b1 == BinAdd(bin, "videoqueue", "queue", EmptyMap)
        tune == IF cfg.video_tune # "none"
                THEN "tune" :> cfg.video_tune
                ELSE EmptyMap
        b2 == BinAdd(b1, "videocodec", "x264enc",
                     ("bitrate" :> cfg.video_bitrate) @@ tune)
        b3 == BinAddPad(b2, "videosink", "videoqueue")
        b4 == BinLink(b3, "videoqueue", "videocodec")
    IN  BinLink(b4, "videocodec", "muxer")

\* BuildBin with the video chain linked to the sink, past the muxer
BuildBin_VideoPastMuxer(audio, video, metadata, selftags, cfg) ==
    LET b1 == MuxerAndSink(NewBin, metadata, selftags, cfg)
        b2 == IF audio THEN AudioChain(b1, cfg) ELSE b1
        b3 == IF video
              THEN BinLink(BinAddPad(BinAdd(BinAdd(b2, "videoqueue", "queue", EmptyMap),
                                            "videocodec", "x264enc", EmptyMap),
                                     "videosink", "videoqueue"),
                           "videoqueue", "videocodec")
              ELSE b2
        b4 == IF video THEN BinLink(b3, "videocodec", "rtmpsink") ELSE b3
    IN  BinLink(b4, "muxer", "rtmpsink")

\* lines 164-247: the graph get_output_bin has wired when it reaches the
\* status push; selftags is self.tags after the set_metadata of line 167
BuildBin(audio, video, metadata, selftags, cfg) ==
    LET b1 == MuxerAndSink(NewBin, metadata, selftags, cfg)
        b2 == IF audio THEN AudioChain(b1, cfg) ELSE b1
        b3 == IF video THEN VideoChain(b2, cfg) ELSE b2
    IN  BinLink(b3, "muxer", "rtmpsink")

----------------------------------------------------------------------------
(* get_talk_status / get_description, lines 255-263 *)

Ok(v) == [exc |-> "", val |-> v]

Raise(e) == [exc |-> e, val |-> ""]

\* Python truth of the metadata argument: None and {} are false
Truthy(metadata) == ~IsNone(metadata) /\ DOMAIN Val(metadata) # {}

\* " - ".join(list)
RECURSIVE Join(_, _)
Join(sep, list) ==
    IF Len(list) = 0 THEN ""
    ELSE IF Len(list) = 1 THEN list[1]
    ELSE list[1] \o sep \o Join(sep, Tail(list))

\* get_talk_status without the `if not metadata` guard of lines 256-257
get_talk_status_NoGuard(metadata) ==
    IF "STATUS_KEYS" \notin RTMPOutputAttrs THEN Raise("AttributeError")
    ELSE IF IsNone(metadata) THEN Raise("TypeError")
    ELSE IF \E i \in DOMAIN STATUS_KEYS : STATUS_KEYS[i] \notin DOMAIN Val(metadata)
         THEN Raise("KeyError")
    ELSE Ok(Join(" - ", [i \in DOMAIN STATUS_KEYS |-> Val(metadata)[STATUS_KEYS[i]]]))

\* line 258: self.STATUS_KEYS is looked up on the instance, then
\* metadata[status_key] for each key
get_talk_status(metadata) ==
    IF ~Truthy(metadata) THEN Ok("")
    ELSE IF "STATUS_KEYS" \notin RTMPOutputAttrs THEN Raise("AttributeError")
    ELSE IF \E i \in DOMAIN STATUS_KEYS : STATUS_KEYS[i] \notin DOMAIN Val(metadata)
         THEN Raise("KeyError")
    ELSE Ok(Join(" - ", [i \in DOMAIN STATUS_KEYS |-> Val(metadata)[STATUS_KEYS[i]]]))

\* line 263
get_description(metadata) ==
    IF ~Truthy(metadata) THEN Ok("")
    ELSE IF "DESCRIPTION_KEY" \notin RTMPOutputAttrs THEN Raise("AttributeError")
    ELSE IF DESCRIPTION_KEY \notin DOMAIN Val(metadata) THEN Raise("KeyError")
    ELSE Ok(Val(metadata)[DESCRIPTION_KEY])

----------------------------------------------------------------------------
(* The oauth / simplejson / pickle calls JustinApi makes *)

RequestTokenStr == "oauth_token=rt&oauth_token_secret=rs"

AccessTokenStr == "oauth_token=at&oauth_token_secret=as"

\* oauth.OAuthToken.from_string(s) raises KeyError unless s carries both
\* oauth_token and oauth_token_secret
TokenParses(s) == s \in {RequestTokenStr, AccessTokenStr}

JsonWhoami == "{\"login\": \"bob\"}"

JsonError == "{\"error\": \"invalid oauth token\"}"

JsonEmpty == "{}"

NotJson == "<html>502 Bad Gateway</html>"

\* simplejson.loads(s): the decoded object, or JSONDecodeError
IsJson(s) == s \in {JsonWhoami, JsonError, JsonEmpty}

JsonLoads(s) ==
    IF s = JsonWhoami THEN "login" :> "bob"
    ELSE IF s = JsonError THEN "error" :> "invalid oauth token"
    ELSE EmptyMap

\* pickle.dumps(list) / pickle.loads(text); the empty string is << >>
PickleDumps(list) == <<"pickle">> \o list

PickleLoads(text) == Tail(text)

----------------------------------------------------------------------------
(* class JustinApi, lines 614-745.  A client is the record of the          *)
(* attributes __init__ binds on the instance; the consumer key and secret  *)
(* are written to and read from self.config, which resolves only when a    *)
(* config attribute exists (apicfg is that object, None when there is      *)
(* none).                                                                  *)

HasConfig(apicfg) == "config" \in JustinApiAttrs \/ ~IsNone(apicfg)

\* lines 654-658
JustinApiInit(apicfg, consumer_key, consumer_secret, request_token_str, access_token_str) ==
    IF ~HasConfig(apicfg)
    THEN [exc |-> "AttributeError", client |-> None, apicfg |-> apicfg]
    ELSE [exc |-> "",
          client |-> Some([request_token_str |-> request_token_str,
                           access_token_str |-> access_token_str,
                           save_method |-> FALSE]),
          apicfg |-> Some([consumer_key |-> consumer_key,
                           consumer_secret |-> consumer_secret])]

\* lines 744-745
to_string(client, apicfg) ==
    PickleDumps(<<Val(apicfg).consumer_key, Val(apicfg).consumer_secret,
                  client.request_token_str, client.access_token_str>>)

\* lines 671-689.  reply is what the server answers to the access_token
\* request.  saves lists the texts handed to the save method.
obtain_access_token(client, apicfg, reply) ==
    IF ~HasConfig(apicfg)
    THEN [exc |-> "AttributeError", client |-> client, trace |-> << >>, saves |-> << >>]
    ELSE IF ~TokenParses(client.request_token_str)
    THEN [exc |-> "", client |-> client, trace |-> <<"log:access_token">>, saves |-> << >>]
    ELSE LET c1 == [client EXCEPT !.access_token_str = reply]
         IN  IF ~TokenParses(reply)
             THEN [exc |-> "", client |-> c1,
                   trace |-> <<"exchange", "log:access_token">>, saves |-> << >>]
             ELSE IF ~c1.save_method
             THEN [exc |-> "AttributeError", client |-> c1,
                   trace |-> <<"exchange">>, saves |-> << >>]
             ELSE [exc |-> "", client |-> c1,
                   trace |-> <<"exchange", "save">>,
                   saves |-> <<to_string(c1, apicfg)>>]

\* lines 691-708.  `except KeyError, simplejson.decoder.JSONDecodeError`
\* catches KeyError alone (the second name is the target the caught
\* exception is bound to).
get_data(client, apicfg, endpoint, reply) ==
    IF ~TokenParses(client.access_token_str)
    THEN [exc |-> "", data |-> EmptyMap, trace |-> <<"log:" \o endpoint>>]
    ELSE IF ~HasConfig(apicfg)
    THEN [exc |-> "AttributeError", data |-> EmptyMap, trace |-> << >>]
    ELSE IF ~IsJson(reply)
    THEN [exc |-> "JSONDecodeError", data |-> EmptyMap, trace |-> <<"get:" \o endpoint>>]
    ELSE [exc |-> "", data |-> JsonLoads(reply), trace |-> <<"get:" \o endpoint>>]

\* lines 710-727
set_data(client, apicfg, endpoint, payload) ==
    IF ~TokenParses(client.access_token_str)
    THEN [exc |-> "", trace |-> <<"log:" \o endpoint>>]
    ELSE IF ~HasConfig(apicfg)
    THEN [exc |-> "AttributeError", trace |-> << >>]
    ELSE [exc |-> "", trace |-> <<"post:" \o endpoint>>]

\* lines 729-742.  replies holds the server's answers to the requests the
\* call may send.
set_channel_status(client, apicfg, status, description, replies) ==
    LET ex == IF client.access_token_str = ""
              THEN obtain_access_token(client, apicfg, replies.access)
              ELSE [exc |-> "", client |-> client, trace |-> << >>, saves |-> << >>]
        c1 == ex.client
        who == get_data(c1, apicfg, "account/whoami.json", replies.whoami)
        show == get_data(c1, apicfg,
                         "channel/show/" \o who.data["login"] \o ".json", replies.show)
        upd == set_data(c1, apicfg, "channel/update.json",
                        [title |-> status, status |-> status, description |-> description])
        out(exc, trace) ==
            [exc |-> exc, client |-> c1, trace |-> trace, saves |-> ex.saves]
    IN  IF ex.exc # "" THEN out(ex.exc, ex.trace)
        ELSE IF who.exc # "" THEN out(who.exc, ex.trace \o who.trace)
        ELSE IF DOMAIN who.data = {} THEN out("", ex.trace \o who.trace)
        ELSE IF "login" \notin DOMAIN who.data
             THEN out("KeyError", ex.trace \o who.trace)
        ELSE IF show.exc # "" THEN out(show.exc, ex.trace \o who.trace \o show.trace)
        ELSE out(upd.exc, ex.trace \o who.trace \o show.trace \o upd.trace)

\* lines 617-644.  reply is the server's answer to the request_token
\* request.
open_request(apicfg, consumer_key, consumer_secret, reply) ==
    IF ~TokenParses(reply)
    THEN [exc |-> "KeyError", client |-> None, apicfg |-> apicfg,
          trace |-> <<"request_token">>]
    ELSE LET new == JustinApiInit(apicfg, consumer_key, consumer_secret, reply, "")
         IN  [exc |-> new.exc, client |-> new.client, apicfg |-> new.apicfg,
              trace |-> <<"request_token">>]

\* lines 646-652
from_string(apicfg, persistent_obj) ==
    LET l == PickleLoads(persistent_obj)
    IN  JustinApiInit(apicfg, l[1], l[2], l[3], l[4])

----------------------------------------------------------------------------
(* Inputs the model draws *)

MetaValues ==
    ("title" :> "T") @@ ("artist" :> "A") @@ ("comment" :> "C") @@ ("bogus" :> "B")

AltMetadata ==
    ("title" :> "T2") @@ ("artist" :> "A2") @@ ("comment" :> "C2")

\* the metadata argument: None, the empty dict, every field present, a
\* key GStreamer does not register, and dicts lacking one of the fields
Metadatas ==
    {None, Some(EmptyMap), Some(AltMetadata), Some(MetaValues)}
      \cup {Some([k \in S |-> MetaValues[k]]) :
                S \in {{"title", "artist", "comment"}, {"artist", "title"},
                       {"title", "comment"}, {"artist", "comment"}}}

UrlValues == {"rtmp://example.org/live"}

QualityValues == {0, 9}

BitrateValues == {1200}

\* texts a line edit may hand over that hold a character outside ASCII
\* (the code point is spelled out)
NonAsciiTexts == {"cl<U+00E9>"}

KeyValues == {"live_key"} \cup NonAsciiTexts

ConsumerKeyValues == {"ck"}

ConsumerSecretValues == {"cs"}

\* str(text) of Python 2 on the QString a line edit hands over: the same
\* characters, or UnicodeEncodeError when one is outside ASCII
str(text) ==
    IF text \in NonAsciiTexts THEN Raise("UnicodeEncodeError") ELSE Ok(text)

\* what the server may answer to an access_token or request_token request
TokenReplies == {AccessTokenStr, "Invalid OAuth Request", ""}

\* what the server may answer to an api/ request
DataReplies == {JsonWhoami, JsonError, JsonEmpty, NotJson}

Replies == [access : TokenReplies, whoami : DataReplies, show : {JsonWhoami, NotJson}]

----------------------------------------------------------------------------
(* State *)

\* the outcome of the last operation
Last(op) ==
    [op |-> op, exc |-> "", bin |-> None, trace |-> << >>,
     audio |-> FALSE, video |-> FALSE, metadata |-> None,
     status |-> None, description |-> None, before |-> None,
     client |-> None, text |-> "", number |-> 0]

\* the configuration record a session may find persisted: the defaults,
\* or what an operator streaming to justin.tv has saved
StoredConfigs ==
    {DefaultConfig,
     [DefaultConfig EXCEPT !.streaming_destination = "justin.tv",
                           !.use_justin_api = "yes",
                           !.streaming_key = "live_key",
                           !.consumer_key = "ck",
                           !.consumer_secret = "cs"]}

\* Config.save(): the persisted record becomes the in-memory one
ConfigSave(cfg) == cfg

\* IOutput.load_config: the in-memory record is read from the persisted one
ConfigLoad(store) == store

\* the plugin after construction and a load of a fresh configuration
\* (class attributes of lines 150-151, defaults of lines 131-142)
Init ==
    /\ saved \in StoredConfigs
    /\ config = ConfigLoad(saved)
    /\ tags = None
    /\ justin_api = None
    /\ justin_api_persistent = None
    /\ api_config = None
    /\ last = Last("init")
    /\ edits = 0
    /\ calls = 0
    /\ exchanges = 0

\* Edit without the self.config.save() that ends every setter
Edit_NoSave(op, cfg, text, number) ==
    /\ edits < MaxEdits
    /\ edits' = edits + 1
    /\ config' = cfg
    /\ last' = [Last(op) EXCEPT !.text = text, !.number = number]
    /\ UNCHANGED <<saved, tags, justin_api, justin_api_persistent, api_config,
                   calls, exchanges>>

\* a settings-panel setter handed text or number: assign the field(s), then
\* self.config.save()
Edit(op, cfg, text, number) ==
    /\ edits < MaxEdits
    /\ edits' = edits + 1
    /\ config' = cfg
    /\ saved' = ConfigSave(cfg)
    /\ last' = [Last(op) EXCEPT !.text = text, !.number = number]
    /\ UNCHANGED <<tags, justin_api, justin_api_persistent, api_config, calls, exchanges>>

\* a setter whose str(text) raises: nothing is assigned and nothing saved
EditRaises(op, exc, text) ==
    /\ edits < MaxEdits
    /\ edits' = edits + 1
    /\ last' = [Last(op) EXCEPT !.exc = exc, !.text = text]
    /\ UNCHANGED <<config, saved, tags, justin_api, justin_api_persistent,
                   api_config, calls, exchanges>>

\* a setter of the form self.config.<field> = str(text); self.config.save()
EditStr(op, cfg, text) ==
    IF str(text).exc # ""
    THEN EditRaises(op, str(text).exc, text)
    ELSE Edit(op, cfg, text, 0)

\* lines 520-522
set_stream_url ==
    \E text \in UrlValues :
        Edit("set_stream_url", [config EXCEPT !.url = text], text, 0)

\* lines 524-526
set_audio_quality ==
    \E v \in QualityValues :
        Edit("set_audio_quality", [config EXCEPT !.audio_quality = v], "", v)

\* lines 528-530
set_video_bitrate ==
    \E v \in BitrateValues :
        Edit("set_video_bitrate", [config EXCEPT !.video_bitrate = v], "", v)

\* lines 532-534
set_video_tune ==
    \E tune \in Range(TUNE_VALUES) :
        Edit("set_video_tune", [config EXCEPT !.video_tune = tune], tune, 0)

\* lines 536-538
set_audio_codec ==
    \E codec \in Range(AUDIO_CODEC_VALUES) :
        Edit("set_audio_codec", [config EXCEPT !.audio_codec = codec], codec, 0)

\* lines 540-551: the widget calls between the assignment and the save
\* touch no field of the configuration
set_streaming_dest ==
    \E dest \in Range(STREAMING_DESTINATION_VALUES) :
        Edit("set_streaming_dest",
             [config EXCEPT !.streaming_destination = dest], dest, 0)

\* lines 553-555
set_streaming_key ==
    \E text \in KeyValues :
        EditStr("set_streaming_key",
                [config EXCEPT !.streaming_key = str(text).val], text)

\* lines 557-563
set_use_justin_api ==
    \E state \in {0, 2} :
        Edit("set_use_justin_api",
             [config EXCEPT !.use_justin_api = IF state # 0 THEN "yes" ELSE "no"],
             "", state)

\* lines 573-575
set_consumer_key ==
    \E text \in ConsumerKeyValues :
        EditStr("set_consumer_key",
                [config EXCEPT !.consumer_key = str(text).val], text)

\* lines 577-579
set_consumer_secret ==
    \E text \in ConsumerSecretValues :
        EditStr("set_consumer_secret",
                [config EXCEPT !.consumer_secret = str(text).val], text)

\* lines 581-583, the save method handed to the client: the text is bound
\* to an attribute of the plugin, then the configuration is saved
set_justin_api_persistent(cfg, text) ==
    [attr |-> Some(text), config |-> cfg, saved |-> ConfigSave(cfg)]

\* the effect on the plugin of the texts a client call handed to its save
\* method
Saved(saves) ==
    IF Len(saves) = 0
    THEN [attr |-> justin_api_persistent, config |-> config, saved |-> saved]
    ELSE set_justin_api_persistent(config, saves[Len(saves)])

CountOf(event, trace) == Cardinality({i \in DOMAIN trace : trace[i] = event})

\* line 249
PushEnabled(cfg) ==
    /\ cfg.streaming_destination = Idx(STREAMING_DESTINATION_VALUES, 1)
    /\ cfg.use_justin_api = "yes"

\* lines 163-253
get_output_bin ==
    \E audio \in BOOLEAN, video \in BOOLEAN, metadata \in Metadatas :
      LET tags1 == IF ~IsNone(metadata) THEN Some(set_metadata(Val(metadata))) ELSE tags
          bin == BuildBin(audio, video, metadata, tags1, config)
          status == get_talk_status(metadata)
          description == get_description(metadata)
          call == [Last("get_output_bin") EXCEPT
                      !.audio = audio, !.video = video, !.metadata = metadata,
                      !.before = justin_api]
      IN  /\ tags' = tags1
          /\ UNCHANGED <<api_config, edits>>
          /\ IF ~PushEnabled(config)
             THEN /\ last' = [call EXCEPT !.bin = Some(bin)]
                  /\ UNCHANGED <<config, saved, justin_api, justin_api_persistent,
                                 calls, exchanges>>
             ELSE IF IsNone(justin_api)
             THEN \* None has no attribute set_channel_status
                  /\ last' = [call EXCEPT !.exc = "AttributeError",
                                          !.trace = <<"push">>]
                  /\ UNCHANGED <<config, saved, justin_api, justin_api_persistent,
                                 calls, exchanges>>
             ELSE IF status.exc # "" \/ description.exc # ""
             THEN /\ last' = [call EXCEPT
                                !.exc = IF status.exc # "" THEN status.exc
                                        ELSE description.exc,
                                !.trace = <<"push">>]
                  /\ UNCHANGED <<config, saved, justin_api, justin_api_persistent,
                                 calls, exchanges>>
             ELSE /\ calls < MaxCalls
                  /\ \E replies \in Replies :
                       LET r == set_channel_status(Val(justin_api), api_config,
                                                   status.val, description.val, replies)
                           sv == Saved(r.saves)
                       IN  /\ justin_api' = Some(r.client)
                           /\ justin_api_persistent' = sv.attr
                           /\ config' = sv.config
                           /\ saved' = sv.saved
                           /\ calls' = calls + 1
                           /\ exchanges' = exchanges + CountOf("exchange", r.trace)
                           /\ last' = [call EXCEPT
                                         !.exc = r.exc,
                                         !.bin = IF r.exc = "" THEN Some(bin) ELSE None,
                                         !.trace = <<"push", "set_channel_status">> \o r.trace,
                                         !.status = Some(status.val),
                                         !.description = Some(description.val)]

\* a caller deriving the channel status, lines 255-258
GetTalkStatus ==
    \E metadata \in Metadatas :
      LET r == get_talk_status(metadata)
      IN  /\ last' = [Last("get_talk_status") EXCEPT
                        !.metadata = metadata, !.exc = r.exc,
                        !.status = IF r.exc = "" THEN Some(r.val) ELSE None]
          /\ UNCHANGED <<config, saved, tags, justin_api, justin_api_persistent,
                         api_config, edits, calls, exchanges>>

\* a caller deriving the channel description, lines 260-263
GetDescription ==
    \E metadata \in Metadatas :
      LET r == get_description(metadata)
      IN  /\ last' = [Last("get_description") EXCEPT
                        !.metadata = metadata, !.exc = r.exc,
                        !.description = IF r.exc = "" THEN Some(r.val) ELSE None]
          /\ UNCHANGED <<config, saved, tags, justin_api, justin_api_persistent,
                         api_config, edits, calls, exchanges>>

\* lines 279-283: the configuration is read back; a stored credential blob
\* is turned into a client whose save method is the plugin's
load_config ==
    LET cfg == ConfigLoad(saved)
        new == from_string(api_config, cfg.justin_api_persistent)
        client == [Val(new.client) EXCEPT !.save_method = TRUE]
        sv == set_justin_api_persistent(cfg, to_string(client, new.apicfg))
    IN  /\ UNCHANGED <<tags, edits, calls, exchanges>>
        /\ IF Len(cfg.justin_api_persistent) = 0
           THEN /\ config' = cfg
                /\ last' = Last("load_config")
                /\ UNCHANGED <<saved, justin_api, justin_api_persistent, api_config>>
           ELSE IF new.exc # ""
           THEN /\ config' = cfg
                /\ last' = [Last("load_config") EXCEPT !.exc = new.exc]
                /\ UNCHANGED <<saved, justin_api, justin_api_persistent, api_config>>
           ELSE /\ config' = sv.config
                /\ saved' = sv.saved
                /\ justin_api' = Some(client)
                /\ justin_api_persistent' = sv.attr
                /\ api_config' = new.apicfg
                /\ last' = [Last("load_config") EXCEPT !.trace = <<"save">>]

\* lines 585-611.  Line 587 reads self.JUSTIN_URL before anything is
\* changed; past it, the url and codec presets are saved and, with both
\* consumer credentials set, a client is requested (KeyError is caught and
\* shown to the operator).
apply_justin_settings ==
    \E reply \in TokenReplies :
      LET cfg == [config EXCEPT !.url = JUSTIN_URL \o config.streaming_key,
                                !.audio_codec = "lame"]
          req == open_request(api_config, cfg.consumer_key, cfg.consumer_secret, reply)
          client == [Val(req.client) EXCEPT !.save_method = TRUE]
          sv == set_justin_api_persistent(cfg, to_string(client, req.apicfg))
      IN  /\ edits < MaxEdits
          /\ edits' = edits + 1
          /\ UNCHANGED <<tags, calls, exchanges>>
          /\ IF "JUSTIN_URL" \notin RTMPOutputAttrs
             THEN /\ last' = [Last("apply_justin_settings") EXCEPT !.exc = "AttributeError"]
                  /\ UNCHANGED <<config, saved, justin_api, justin_api_persistent, api_config>>
             ELSE IF cfg.consumer_key = "" \/ cfg.consumer_secret = ""
             THEN /\ config' = cfg
                  /\ saved' = ConfigSave(cfg)
                  /\ last' = Last("apply_justin_settings")
                  /\ UNCHANGED <<justin_api, justin_api_persistent, api_config>>
             ELSE IF req.exc # ""
             THEN /\ config' = cfg
                  /\ saved' = ConfigSave(cfg)
                  /\ last' = [Last("apply_justin_settings") EXCEPT
                                !.exc = IF req.exc = "KeyError" THEN "" ELSE req.exc,
                                !.trace = req.trace \o <<"log:authentication">>]
                  /\ UNCHANGED <<justin_api, justin_api_persistent, api_config>>
             ELSE /\ config' = sv.config
                  /\ saved' = sv.saved
                  /\ justin_api' = Some(client)
                  /\ justin_api_persistent' = sv.attr
                  /\ api_config' = req.apicfg
                  /\ last' = [Last("apply_justin_settings") EXCEPT
                                !.trace = req.trace \o <<"save">>]

Next ==
    \/ set_stream_url
    \/ set_audio_quality
    \/ set_video_bitrate
    \/ set_video_tune
    \/ set_audio_codec
    \/ set_streaming_dest
    \/ set_streaming_key
    \/ set_use_justin_api
    \/ set_consumer_key
    \/ set_consumer_secret
    \/ apply_justin_settings
    \/ load_config
    \/ get_output_bin
    \/ GetTalkStatus
    \/ GetDescription

Spec == Init /\ [][Next]_vars

----------------------------------------------------------------------------
(* The JustinApi methods checked as units.  The receiver of a method is    *)
(* one of its inputs: the plugin holds a client whose attributes are drawn *)
(* (the request token is one open_request has parsed; the access token is  *)
(* absent, unparsable or well formed), and so is whether the config        *)
(* attribute its methods read exists.                                      *)

Credentials == [consumer_key |-> "ck", consumer_secret |-> "cs"]

Clients ==
    {[request_token_str |-> RequestTokenStr, access_token_str |-> a, save_method |-> TRUE] :
        a \in {"", "Invalid OAuth Request", AccessTokenStr}}

\* what a session may find persisted, a credential blob included
StoredConfigsApi ==
    StoredConfigs \cup
    {[DefaultConfig EXCEPT
        !.streaming_destination = "justin.tv",
        !.use_justin_api = "yes",
        !.consumer_key = "ck",
        !.consumer_secret = "cs",
        !.justin_api_persistent =
            PickleDumps(<<"ck", "cs", RequestTokenStr, AccessTokenStr>>)]}

InitApi ==
    /\ saved \in StoredConfigsApi
    /\ config = ConfigLoad(saved)
    /\ tags = None
    /\ justin_api \in {None} \cup {Some(c) : c \in Clients}
    /\ justin_api_persistent = None
    /\ api_config \in {None, Some(Credentials)}
    /\ last = Last("init")
    /\ edits = 0
    /\ calls = 0
    /\ exchanges = 0

\* a caller pushing a channel status through the plugin's client,
\* lines 729-742
SetChannelStatus ==
    \E status \in {"A - T"}, description \in {"C"}, replies \in Replies :
      LET r == set_channel_status(Val(justin_api), api_config, status, description, replies)
          sv == Saved(r.saves)
      IN  /\ ~IsNone(justin_api)
          /\ calls < MaxCalls
          /\ justin_api' = Some(r.client)
          /\ justin_api_persistent' = sv.attr
          /\ config' = sv.config
          /\ saved' = sv.saved
          /\ calls' = calls + 1
          /\ exchanges' = exchanges + CountOf("exchange", r.trace)
          /\ last' = [Last("set_channel_status") EXCEPT
                        !.exc = r.exc,
                        !.trace = <<"set_channel_status">> \o r.trace,
                        !.status = Some(status),
                        !.description = Some(description),
                        !.before = justin_api]
          /\ UNCHANGED <<tags, api_config, edits>>

\* a caller requesting a client, lines 617-644
OpenRequest ==
    \E reply \in TokenReplies :
      LET r == open_request(api_config, "ck", "cs", reply)
      IN  /\ api_config' = r.apicfg
          /\ last' = [Last("open_request") EXCEPT
                        !.exc = r.exc, !.trace = r.trace, !.client = r.client]
          /\ UNCHANGED <<config, saved, tags, justin_api, justin_api_persistent,
                         edits, calls, exchanges>>

NextApi ==
    \/ load_config
    \/ get_output_bin
    \/ SetChannelStatus
    \/ OpenRequest

SpecApi == InitApi /\ [][NextApi]_vars

----------------------------------------------------------------------------
(* Properties *)

\* get_output_bin has returned a graph
Returned == last.op = "get_output_bin" /\ last.exc = "" /\ ~IsNone(last.bin)

Graph == Val(last.bin)

InTrace(event) == \E i \in DOMAIN last.trace : last.trace[i] = event

Incoming(g, n) == {l \in g.links : l[2] = n}

Outgoing(g, n) == {l \in g.links : l[1] = n}

AudioNodes == {"audioqueue", "audioconvert", "audiolevel", "audiocodec"}

VideoNodes == {"videoqueue", "videocodec"}

AudioLinks ==
    {<<"audioqueue", "audioconvert">>, <<"audioconvert", "audiolevel">>,
     <<"audiolevel", "audiocodec">>, <<"audiocodec", "muxer">>}

VideoLinks == {<<"videoqueue", "videocodec">>, <<"videocodec", "muxer">>}

\* C1: whenever get_output_bin returns with audio or video enabled, the
\* graph has exactly one ghost pad per enabled media type, named audiosink
\* or videosink, bound to the sink pad of that type's queue, which is the
\* head of its chain (no link enters it), and no pad for a disabled type.
C1_Ports ==
    (Returned /\ (last.audio \/ last.video)) =>
        /\ {p.name : p \in Graph.pads}
              = (IF last.audio THEN {"audiosink"} ELSE {})
                  \cup (IF last.video THEN {"videosink"} ELSE {})
        /\ Cardinality(Graph.pads)
              = (IF last.audio THEN 1 ELSE 0) + (IF last.video THEN 1 ELSE 0)
        /\ \A p \in Graph.pads :
              /\ p.element = (IF p.name = "audiosink" THEN "audioqueue" ELSE "videoqueue")
              /\ p.element \in DOMAIN Graph.elements
              /\ Graph.elements[p.element].factory = "queue"
              /\ Incoming(Graph, p.element) = {}

\* C1 witness: a graph returned for audio without video has the audio port
\* and no video port
C1_Witness ==
    /\ Returned /\ last.audio /\ ~last.video
    /\ {p.name : p \in Graph.pads} = {"audiosink"}

\* C2: in every returned graph each enabled media type contributes exactly
\* its linear chain ending at the one muxer, a disabled type contributes no
\* node and no link, and the muxer's only outgoing link goes to the one
\* rtmpsink node.
C2_Chains ==
    Returned =>
        /\ DOMAIN Graph.elements
              = {"muxer", "rtmpsink"}
                  \cup (IF last.audio THEN AudioNodes ELSE {})
                  \cup (IF last.video THEN VideoNodes ELSE {})
        /\ Graph.links
              = {<<"muxer", "rtmpsink">>}
                  \cup (IF last.audio THEN AudioLinks ELSE {})
                  \cup (IF last.video THEN VideoLinks ELSE {})
        /\ Outgoing(Graph, "muxer") = {<<"muxer", "rtmpsink">>}
        /\ {n \in DOMAIN Graph.elements : Graph.elements[n].factory = "flvmux"} = {"muxer"}
        /\ {n \in DOMAIN Graph.elements : Graph.elements[n].factory = "rtmpsink"} = {"rtmpsink"}
        /\ \A n \in DOMAIN Graph.elements \ {"rtmpsink"} :
              Cardinality(Outgoing(Graph, n)) = 1

\* C2 witness: a graph returned with both media types holds both chains
C2_Witness ==
    /\ Returned /\ last.audio /\ last.video
    /\ AudioLinks \cup VideoLinks \subseteq Graph.links

\* C3 (as claimed): with the destination justin.tv and use_justin_api 'yes',
\* get_output_bin lets no failure of the status push escape and returns the
\* wired graph.
C3_Claim ==
    (last.op = "get_output_bin" /\ PushEnabled(config)) =>
        (last.exc = "" /\ ~IsNone(last.bin))

\* the client get_output_bin found in self.justin_api
HeldClient == last.op = "get_output_bin" /\ ~IsNone(last.before)

\* C4 (as claimed): get_output_bin called with metadata None attempts no
\* platform call, even with the push enabled.
C4_Claim ==
    (last.op = "get_output_bin" /\ IsNone(last.metadata)) =>
        ~InTrace("set_channel_status")

\* C4 (amended): get_output_bin called with metadata None resolves status
\* and description to the empty string, and the push does not depend on
\* the metadata: it is attempted exactly when the destination is justin.tv
\* and use_justin_api is 'yes', and with a client held set_channel_status
\* is invoked with both arguments empty.
C4_Amended ==
    (last.op = "get_output_bin" /\ IsNone(last.metadata)) =>
        /\ InTrace("push") <=> PushEnabled(config)
        /\ (PushEnabled(config) /\ HeldClient) =>
              /\ InTrace("set_channel_status")
              /\ last.status = Some("")
              /\ last.description = Some("")

\* C4 witness: a push made with metadata None reached the client with
\* empty status and description
C4_Witness ==
    /\ last.op = "get_output_bin" /\ IsNone(last.metadata)
    /\ InTrace("set_channel_status")
    /\ last.status = Some("") /\ last.description = Some("")

HasFields(metadata, keys) == ~IsNone(metadata) /\ keys \subseteq DOMAIN Val(metadata)

\* C5 (as claimed): for metadata holding title T, artist A and comment C,
\* get_talk_status returns "A - T" and get_description returns C.
C5_Claim ==
    /\ (last.op = "get_talk_status"
          /\ HasFields(last.metadata, {"title", "artist", "comment"})) =>
            last.status
              = Some(Val(last.metadata)["artist"] \o " - " \o Val(last.metadata)["title"])
    /\ (last.op = "get_description"
          /\ HasFields(last.metadata, {"title", "artist", "comment"})) =>
            last.description = Some(Val(last.metadata)["comment"])

\* C6 (as claimed): deriving the status or the description from a non-empty
\* metadata mapping that lacks artist, title or comment raises no error.
C6_Claim ==
    (last.op \in {"get_talk_status", "get_description"}
        /\ Truthy(last.metadata)
        /\ ~HasFields(last.metadata, {"title", "artist", "comment"})) =>
        last.exc = ""

\* C7 (as claimed): set_channel_status on a client whose access token is
\* malformed or expired lets no exception escape (stated for a client
\* whose self.config resolves, so that the requests are reached).
C7_Claim ==
    (InTrace("set_channel_status")
        /\ ~IsNone(last.before)
        /\ Val(last.before).access_token_str # ""
        /\ HasConfig(api_config)) =>
        last.exc = ""

\* the events of the last operation that follow the entry into
\* set_channel_status
RECURSIVE CallEvents(_)
CallEvents(trace) ==
    IF Len(trace) = 0 THEN << >>
    ELSE IF trace[1] = "set_channel_status" THEN Tail(trace)
    ELSE CallEvents(Tail(trace))

\* C8 (as claimed): open_request never performs the access-token exchange;
\* a set_channel_status call on a client holding no access token performs
\* it first, before any API data call; a call on a client that holds an
\* access token does not perform it.
C8_Claim ==
    /\ last.op = "open_request" => ~InTrace("exchange")
    /\ (InTrace("set_channel_status") /\ ~IsNone(last.before)) =>
          IF Val(last.before).access_token_str = ""
          THEN /\ Len(CallEvents(last.trace)) > 0
               /\ CallEvents(last.trace)[1] = "exchange"
          ELSE ~InTrace("exchange")

\* C9 (as claimed): once an exchange has succeeded and the save method has
\* run, the configuration's justin_api_persistent, in memory and as
\* persisted, is the client's to_string().
C9_Claim ==
    (InTrace("exchange") /\ InTrace("save")) =>
        /\ config.justin_api_persistent = to_string(Val(justin_api), api_config)
        /\ saved.justin_api_persistent = to_string(Val(justin_api), api_config)

\* C10: every graph get_output_bin returns has the muxer's tag merge mode
\* set to replace, with metadata given or not.
C10_MergeMode == Returned => Graph.muxer_merge_mode = "replace"

\* C10 witness: a graph returned for a call without metadata has the
\* replace merge mode and no merged tags
C10_Witness ==
    /\ Returned /\ IsNone(last.metadata)
    /\ Graph.muxer_merge_mode = "replace"
    /\ IsNone(Graph.muxer_tags)

\* C11: when metadata is supplied, the tags merged into the muxer of the
\* returned graph are exactly the metadata entries whose key GStreamer
\* registers, each with the supplied value; an entry with another key is
\* dropped and raises nothing.
C11_Tags ==
    (last.op = "get_output_bin" /\ ~IsNone(last.metadata)
        /\ ~PushEnabled(config)) =>
        /\ Returned
        /\ ~IsNone(Graph.muxer_tags)
        /\ DOMAIN Val(Graph.muxer_tags)
              = DOMAIN Val(last.metadata) \cap {"title", "artist", "comment"}
        /\ \A k \in DOMAIN Val(Graph.muxer_tags) :
              Val(Graph.muxer_tags)[k] = Val(last.metadata)[k]

\* C11 witness: a graph returned for metadata holding the unregistered key
\* bogus carries the three registered tags and not bogus
C11_Witness ==
    /\ Returned /\ ~IsNone(last.metadata)
    /\ "bogus" \in DOMAIN Val(last.metadata)
    /\ DOMAIN Val(Graph.muxer_tags) = {"title", "artist", "comment"}

\* C12: with audio enabled, get_output_bin raises nothing on account of the
\* codec: the configured codec is added and the whole audio chain is linked
\* to the muxer; a codec that has a quality property (lame) gets the
\* configured audio_quality, a codec without one (faac) gets no quality.
C12_Quality ==
    (last.op = "get_output_bin" /\ last.audio /\ ~PushEnabled(config)) =>
        /\ Returned
        /\ "audiocodec" \in DOMAIN Graph.elements
        /\ Graph.elements["audiocodec"].factory = config.audio_codec
        /\ AudioLinks \subseteq Graph.links
        /\ LET props == Graph.elements["audiocodec"].props
           IN  IF "quality" \in PropertyNames(config.audio_codec)
               THEN /\ "quality" \in DOMAIN props
                    /\ props["quality"] = config.audio_quality
               ELSE "quality" \notin DOMAIN props

\* C12 witness: a graph returned with audio enabled and the codec faac,
\* which has no quality property, after the codec has been edited
C12_Witness ==
    /\ Returned /\ last.audio
    /\ config.audio_codec = "faac"
    /\ Graph.elements["audiocodec"].factory = "faac"
    /\ "quality" \notin DOMAIN Graph.elements["audiocodec"].props
    /\ <<"audiocodec", "muxer">> \in Graph.links

\* C13: with video enabled, the encoder of the returned graph has no tune
\* property when video_tune is "none" and has tune equal to the configured
\* value for every other value; its bitrate is the configured video_bitrate
\* in both cases.
C13_Tune ==
    (Returned /\ last.video) =>
        LET props == Graph.elements["videocodec"].props
        IN  /\ "bitrate" \in DOMAIN props
            /\ props["bitrate"] = config.video_bitrate
            /\ IF config.video_tune = "none"
               THEN "tune" \notin DOMAIN props
               ELSE /\ "tune" \in DOMAIN props
                    /\ props["tune"] = config.video_tune
            /\ config.video_tune \in Range(TUNE_VALUES)

\* C13 witness: a graph returned with video enabled while video_tune is
\* "none", the encoder carrying its bitrate and no tune
C13_Witness ==
    /\ Returned /\ last.video
    /\ config.video_tune = "none"
    /\ DOMAIN Graph.elements["videocodec"].props = {"bitrate"}

Setters ==
    {"set_stream_url", "set_audio_quality", "set_video_bitrate",
     "set_video_tune", "set_audio_codec", "set_streaming_dest",
     "set_streaming_key", "set_use_justin_api", "set_consumer_key",
     "set_consumer_secret"}

\* C14: after any sequence of settings-panel edits, once a setter has
\* completed the field it edits holds the value handed over (yes/no for the
\* use-justin-api check state) and the persisted configuration equals the
\* in-memory one.
C14_Persisted ==
    (last.op \in Setters /\ last.exc = "") =>
        /\ saved = config
        /\ last.op = "set_stream_url" => config.url = last.text
        /\ last.op = "set_audio_quality" => config.audio_quality = last.number
        /\ last.op = "set_video_bitrate" => config.video_bitrate = last.number
        /\ last.op = "set_video_tune" => config.video_tune = last.text
        /\ last.op = "set_audio_codec" => config.audio_codec = last.text
        /\ last.op = "set_streaming_dest" =>
              config.streaming_destination = last.text
        /\ last.op = "set_streaming_key" => config.streaming_key = last.text
        /\ last.op = "set_use_justin_api" =>
              config.use_justin_api = (IF last.number # 0 THEN "yes" ELSE "no")
        /\ last.op = "set_consumer_key" => config.consumer_key = last.text
        /\ last.op = "set_consumer_secret" => config.consumer_secret = last.text

\* C14 witness: the second of two edits, the use-justin-api box being
\* checked after the stream url was typed, both held and persisted
C14_Witness ==
    /\ edits = 2
    /\ last.op = "set_use_justin_api" /\ last.number = 2
    /\ config.use_justin_api = "yes"
    /\ config.url = "rtmp://example.org/live"
    /\ saved.url = "rtmp://example.org/live"
    /\ saved.use_justin_api = "yes"

\* C15: graphs of successive get_output_bin calls on one plugin are
\* independent: a graph built with metadata None carries no tags, whatever
\* self.tags still holds from an earlier call, and a graph built with
\* metadata carries no tag that is not an entry of that call's metadata.
C15_Independent ==
    Returned =>
        IF IsNone(last.metadata)
        THEN IsNone(Graph.muxer_tags)
        ELSE \A k \in DOMAIN Val(Graph.muxer_tags) :
                /\ k \in DOMAIN Val(last.metadata)
                /\ Val(Graph.muxer_tags)[k] = Val(last.metadata)[k]

\* C15 witness: a graph returned for metadata None, without tags, while
\* self.tags holds the tags of an earlier call
C15_Witness ==
    /\ Returned /\ IsNone(last.metadata)
    /\ ~IsNone(tags)
    /\ "title" \in DOMAIN Val(tags)
    /\ IsNone(Graph.muxer_tags)

\* C16 (as claimed): when the access-token exchange of a set_channel_status
\* call fails because the server's reply does not parse as a token, the
\* client's credential state is as before the call: access_token_str is
\* still empty and the save method has not run, so the next call attempts
\* the exchange again.
C16_Claim ==
    (last.op = "set_channel_status" /\ ~IsNone(last.before)
        /\ InTrace("exchange") /\ InTrace("log:access_token")) =>
        /\ Val(justin_api).access_token_str = Val(last.before).access_token_str
        /\ Val(justin_api).access_token_str = ""
        /\ ~InTrace("save")

====
